---- MODULE Spec2Model ----
(***************************************************************************)
(* Ledger and inventory-consistency engine of the shop server              *)
(* (src/server.ts): the SQLite store, the balance recalculators, the       *)
(* request handlers that move money or stock, and backup export/import.    *)
(*                                                                         *)
(* A table is the set of its rows; a row is a record of the columns the    *)
(* handlers read or write (name, phone, notes, description, created_at     *)
(* and the other display-only columns are left out).  REAL amounts are     *)
(* modelled as integers.  Every handler is one action: better-sqlite3 is   *)
(* synchronous and Node runs one handler at a time.                        *)
(***************************************************************************)
EXTENDS Integers, Sequences, FiniteSets, TLC

VARIABLES
    db,            \* the store: one field per table, plus sqlite_sequence
    foreign_keys,  \* PRAGMA foreign_keys of the connection (set by the build)
    req,           \* the request the last handler served
    res            \* the response it sent

vars == <<db, foreign_keys, req, res>>

(***************************************************************************)
(* Bounds of the model.                                                    *)
(***************************************************************************)
MaxCustomers == 1      \* customer ids a request may name / rows created
MaxSuppliers == 1      \* supplier ids
MaxProducts == 1       \* product ids a request's items name; one more is created
MaxRows == 3           \* rows of a movement table (AUTOINCREMENT ids used)
MaxHeaders == 1        \* sale / purchase headers, stock adjustments
MaxItems == 2          \* items of one sale or purchase request
MaxAmount == 1         \* amounts and balances of a request: 1..MaxAmount
MaxFault == 5          \* an I/O error strikes one of the first MaxFault statements

(***************************************************************************)
(* Values.                                                                 *)
(***************************************************************************)
\* A column holding SQL NULL; better-sqlite3 binds null and undefined (a
\* field missing from req.body) as NULL.
NULL == 0 - 99

\* The same in a TEXT column of the model.
NullText == "NULL"

\* JavaScript truthiness of a number-or-missing field: if (customer_id)
Truthy(v) == v # NULL /\ v # 0

Max(a, b) == IF a >= b THEN a ELSE b

Amounts == 1..MaxAmount

PaymentStatuses == {"paid", "partial", "unpaid"}

(***************************************************************************)
(* Schema: db.exec(CREATE TABLE ...).                                      *)
(***************************************************************************)
\* The fixed table order of backup export and import.
TABLES ==
    << "users", "settings", "products", "warehouses", "suppliers",
       "supplier_transactions", "customers", "sales", "sale_items",
       "transactions", "maintenance", "purchases", "purchase_items",
       "general_ledger", "stock_adjustments" >>

TableNames == {TABLES[i] : i \in 1..Len(TABLES)}

\* Tables whose id is INTEGER PRIMARY KEY AUTOINCREMENT (all but settings).
AutoTables == TableNames \ {"settings"}

\* FOREIGN KEY(col) REFERENCES parent(id)
ForeignKeyClauses ==
    { [child |-> "purchases", col |-> "supplier_id", parent |-> "suppliers"],
      [child |-> "purchases", col |-> "user_id", parent |-> "users"],
      [child |-> "purchase_items", col |-> "purchase_id", parent |-> "purchases"],
      [child |-> "purchase_items", col |-> "product_id", parent |-> "products"],
      [child |-> "supplier_transactions", col |-> "supplier_id", parent |-> "suppliers"],
      [child |-> "sales", col |-> "customer_id", parent |-> "customers"],
      [child |-> "sales", col |-> "user_id", parent |-> "users"],
      [child |-> "sale_items", col |-> "sale_id", parent |-> "sales"],
      [child |-> "sale_items", col |-> "product_id", parent |-> "products"],
      [child |-> "transactions", col |-> "customer_id", parent |-> "customers"],
      [child |-> "maintenance", col |-> "user_id", parent |-> "users"],
      [child |-> "stock_adjustments", col |-> "product_id", parent |-> "products"] }

\* CHECK(col IN (...)): a NULL passes a CHECK constraint.
CheckOK(t, row) ==
    CASE t = "users" -> row.role \in {"admin", "accountant", "engineer", NullText}
      [] t \in {"purchases", "sales"} -> row.payment_status \in PaymentStatuses \cup {NullText}
      [] t = "supplier_transactions" -> row.type \in {"purchase", "payment", NullText}
      [] t = "transactions" -> row.type \in {"sale", "payment", NullText}
      [] t = "general_ledger" -> row.type \in {"revenue", "expense", NullText}
      [] t = "stock_adjustments" -> row.type \in {"damaged", "correction", "lost", NullText}
      [] OTHER -> TRUE

\* The PRIMARY KEY column: key for settings, id for every other table.
PrimaryKey(t) == IF t = "settings" THEN "key" ELSE "id"

\* PRIMARY KEY, and the UNIQUE columns users.username and products.sku
\* (NULLs are distinct from each other in a UNIQUE column).
UniqueOK(d, t, row) ==
    /\ \A r \in d[t] : r[PrimaryKey(t)] # row[PrimaryKey(t)]
    /\ t = "users" => \A r \in d[t] : r.username # row.username
    /\ t = "products" => \A r \in d[t] : r.sku # row.sku \/ row.sku = NullText

\* The parent row of every non-NULL reference exists.
ForeignKeysOK(d, t, row) ==
    foreign_keys =>
        \A fk \in ForeignKeyClauses :
            fk.child = t =>
                \/ row[fk.col] = NULL
                \/ \E p \in d[fk.parent] : p.id = row[fk.col]

\* DELETE FROM t leaves no row of another table referencing a deleted row.
DeleteOK(d, t) ==
    foreign_keys =>
        \A fk \in ForeignKeyClauses :
            fk.parent = t => \A r \in d[fk.child] : r[fk.col] = NULL

(***************************************************************************)
(* Statements.  A running handler is [db, ok, n]: the store as its         *)
(* statements have left it, whether one has thrown, and how many ran.      *)
(* fault is the statement an I/O error strikes (0: none).                  *)
(***************************************************************************)
Begin(d) == [db |-> d, ok |-> TRUE, n |-> 0]

\* One prepared statement's run(): throws on a constraint or an I/O error
\* and then changes nothing; every later statement of the handler is skipped.
Stmt(st, fault, valid, newdb) ==
    IF ~st.ok THEN st
    ELSE IF st.n + 1 = fault \/ ~valid
         THEN [db |-> st.db, ok |-> FALSE, n |-> st.n + 1]
         ELSE [db |-> newdb, ok |-> TRUE, n |-> st.n + 1]

MaxId(rows) == IF rows = {} THEN 0 ELSE CHOOSE m \in {r.id : r \in rows} : \A r \in rows : r.id <= m

\* AUTOINCREMENT: one more than the largest id the table ever held.
NextId(d, t) == Max(d.sqlite_sequence[t], MaxId(d[t])) + 1

WithId(row, id) == [c \in DOMAIN row \cup {"id"} |-> IF c = "id" THEN id ELSE row[c]]

\* INSERT INTO t (...) VALUES (...) with the id generated.
Insert(st, fault, t, row) ==
    LET new == WithId(row, NextId(st.db, t))
    IN Stmt(st, fault,
            CheckOK(t, new) /\ UniqueOK(st.db, t, new) /\ ForeignKeysOK(st.db, t, new),
            [st.db EXCEPT ![t] = @ \cup {new},
                          !.sqlite_sequence[t] = new.id])

\* INSERT of a snapshot row, its id given.
InsertWithId(st, fault, t, row) ==
    Stmt(st, fault,
         CheckOK(t, row) /\ UniqueOK(st.db, t, row) /\ ForeignKeysOK(st.db, t, row),
         IF t \in AutoTables
         THEN [st.db EXCEPT ![t] = @ \cup {row},
                            !.sqlite_sequence[t] = Max(@, row.id)]
         ELSE [st.db EXCEPT ![t] = @ \cup {row}])

\* Mutant of Transaction: the writes made before the throw are kept.
TransactionNoRollback(d, st) == st.db

\* db.transaction(fn)(): COMMIT when fn returns, ROLLBACK when it throws.
Transaction(d, st) == IF st.ok THEN st.db ELSE d

\* Statements run outside a transaction: each is committed as it completes.
AutoCommit(d, st) == st.db

\* UPDATE t SET ... WHERE id = ?: set[r] is row r as the SET clause leaves it.
Update(st, fault, t, id, set) ==
    Stmt(st, fault, TRUE,
         [st.db EXCEPT ![t] = {IF r.id = id THEN set[r] ELSE r : r \in @}])

\* A SELECT: it changes nothing, and can fail like any statement.
Select(st, fault) == Stmt(st, fault, TRUE, st.db)

(***************************************************************************)
(* Balance recalculators.                                                  *)
(***************************************************************************)
RECURSIVE SumAmounts(_)
\* SUM(amount) over a set of rows; SUM passes over a NULL amount
SumAmounts(rows) ==
    IF rows = {} THEN 0
    ELSE LET r == CHOOSE x \in rows : TRUE
         IN (IF r.amount = NULL THEN 0 ELSE r.amount) + SumAmounts(rows \ {r})

\* SUM(CASE WHEN type = kind THEN amount ELSE 0 END) ... WHERE <col> = id,
\* then || 0 for the NULL of an empty selection. "= NULL" selects nothing.
TotalOf(rows, col, id, kind) ==
    SumAmounts({r \in rows : id # NULL /\ r[col] = id /\ r.type = kind})

\* Mutant of updateCustomerBalance: the payments are not subtracted.
updateCustomerBalanceSalesOnly(st, fault, customerId) ==
    LET balance == TotalOf(st.db.transactions, "customer_id", customerId, "sale")
        SetBalance == [r \in st.db.customers |-> [r EXCEPT !.balance = balance]]
    IN Update(Select(st, fault), fault, "customers", customerId, SetBalance)

\* Mutant of updateCustomerBalance: the UPDATE has no WHERE clause and
\* writes the balance to every customer.
updateCustomerBalanceOfAll(st, fault, customerId) ==
    LET total_sales == TotalOf(st.db.transactions, "customer_id", customerId, "sale")
        total_payments == TotalOf(st.db.transactions, "customer_id", customerId, "payment")
        balance == total_sales - total_payments
    IN Stmt(Select(st, fault), fault, TRUE,
            [st.db EXCEPT !.customers = {[r EXCEPT !.balance = balance] : r \in @}])

\* Mutant of updateCustomerBalance: the aggregate of the log is added to
\* the opening balance.
updateCustomerBalanceFromOpening(st, fault, customerId) ==
    LET total_sales == TotalOf(st.db.transactions, "customer_id", customerId, "sale")
        total_payments == TotalOf(st.db.transactions, "customer_id", customerId, "payment")
        SetBalance == [r \in st.db.customers |->
                          [r EXCEPT !.balance =
                              r.opening_balance + total_sales - total_payments]]
    IN Update(Select(st, fault), fault, "customers", customerId, SetBalance)

\* Mutant of updateCustomerBalance: with no row of the customer in the log
\* the balance is left as it is.
updateCustomerBalanceSkippingEmpty(st, fault, customerId) ==
    LET total_sales == TotalOf(st.db.transactions, "customer_id", customerId, "sale")
        total_payments == TotalOf(st.db.transactions, "customer_id", customerId, "payment")
        balance == total_sales - total_payments
        SetBalance == [r \in st.db.customers |-> [r EXCEPT !.balance = balance]]
    IN IF \E r \in st.db.transactions : r.customer_id = customerId
       THEN Update(Select(st, fault), fault, "customers", customerId, SetBalance)
       ELSE Select(st, fault)

updateCustomerBalance(st, fault, customerId) ==
    LET total_sales == TotalOf(st.db.transactions, "customer_id", customerId, "sale")
        total_payments == TotalOf(st.db.transactions, "customer_id", customerId, "payment")
        balance == total_sales - total_payments
        SetBalance == [r \in st.db.customers |-> [r EXCEPT !.balance = balance]]
    IN Update(Select(st, fault), fault, "customers", customerId, SetBalance)

updateSupplierBalance(st, fault, supplierId) ==
    LET total_purchases == TotalOf(st.db.supplier_transactions, "supplier_id", supplierId, "purchase")
        total_payments == TotalOf(st.db.supplier_transactions, "supplier_id", supplierId, "payment")
        balance == total_purchases - total_payments
        SetBalance == [r \in st.db.suppliers |-> [r EXCEPT !.balance = balance]]
    IN Update(Select(st, fault), fault, "suppliers", supplierId, SetBalance)

(***************************************************************************)
(* Handler bodies: the statements of each handler, in the code's order.    *)
(***************************************************************************)
RECURSIVE SaleItemsFloored(_, _, _, _, _)
\* Mutant of SaleItems: the stock is not taken below zero.
SaleItemsFloored(st, fault, saleId, items, i) ==
    IF i > Len(items) THEN st
    ELSE LET item == items[i]
             TakeStock == [r \in st.db.products |->
                              [r EXCEPT !.stock_quantity = Max(0, @ - item.quantity)]]
             s1 == Insert(st, fault, "sale_items",
                          [sale_id |-> saleId, product_id |-> item.product_id,
                           quantity |-> item.quantity])
             s2 == Update(s1, fault, "products", item.product_id, TakeStock)
         IN SaleItemsFloored(s2, fault, saleId, items, i + 1)

RECURSIVE SaleItems(_, _, _, _, _)
\* for (const item of items) { INSERT INTO sale_items; UPDATE products }
SaleItems(st, fault, saleId, items, i) ==
    IF i > Len(items) THEN st
    ELSE LET item == items[i]
             TakeStock == [r \in st.db.products |->
                              [r EXCEPT !.stock_quantity = @ - item.quantity]]
             s1 == Insert(st, fault, "sale_items",
                          [sale_id |-> saleId, product_id |-> item.product_id,
                           quantity |-> item.quantity])
             s2 == Update(s1, fault, "products", item.product_id, TakeStock)
         IN SaleItems(s2, fault, saleId, items, i + 1)

\* Mutant of SaleBody: the 'payment' row is written whatever the status.
SaleBodyAlwaysPaid(d, body, fault) ==
    LET saleId == NextId(d, "sales")
        s1 == Insert(Begin(d), fault, "sales",
                     [customer_id |-> body.customer_id, user_id |-> body.user_id,
                      total_amount |-> body.total_amount,
                      payment_status |-> body.payment_status])
        s2 == Insert(s1, fault, "transactions",
                     [customer_id |-> body.customer_id, type |-> "sale",
                      amount |-> body.total_amount])
        s3 == Insert(s2, fault, "transactions",
                     [customer_id |-> body.customer_id, type |-> "payment",
                      amount |-> body.total_amount])
        s4 == IF Truthy(body.customer_id)
              THEN updateCustomerBalance(s3, fault, body.customer_id)
              ELSE s1
    IN SaleItems(s4, fault, saleId, body.items, 1)

\* The function POST /api/sales hands to db.transaction.
SaleBody(d, body, fault) ==
    LET saleId == NextId(d, "sales")
        s1 == Insert(Begin(d), fault, "sales",
                     [customer_id |-> body.customer_id, user_id |-> body.user_id,
                      total_amount |-> body.total_amount,
                      payment_status |-> body.payment_status])
        s2 == Insert(s1, fault, "transactions",
                     [customer_id |-> body.customer_id, type |-> "sale",
                      amount |-> body.total_amount])
        s3 == IF body.payment_status = "paid"
              THEN Insert(s2, fault, "transactions",
                          [customer_id |-> body.customer_id, type |-> "payment",
                           amount |-> body.total_amount])
              ELSE s2
        s4 == IF Truthy(body.customer_id)
              THEN updateCustomerBalance(s3, fault, body.customer_id)
              ELSE s1
    IN SaleItems(s4, fault, saleId, body.items, 1)

RECURSIVE PurchaseItemsAveraged(_, _, _, _, _)
\* Mutant of PurchaseItems: the cost becomes the mean of the old and the new.
PurchaseItemsAveraged(st, fault, purchaseId, items, i) ==
    IF i > Len(items) THEN st
    ELSE LET item == items[i]
             AddStock == [r \in st.db.products |->
                             [r EXCEPT !.stock_quantity = @ + item.quantity,
                                       !.cost = (@ + item.unit_cost) \div 2]]
             s1 == Insert(st, fault, "purchase_items",
                          [purchase_id |-> purchaseId, product_id |-> item.product_id,
                           quantity |-> item.quantity, unit_cost |-> item.unit_cost])
             s2 == Update(s1, fault, "products", item.product_id, AddStock)
         IN PurchaseItemsAveraged(s2, fault, purchaseId, items, i + 1)

RECURSIVE PurchaseItems(_, _, _, _, _)
\* for (const item of items) { INSERT INTO purchase_items; UPDATE products }
PurchaseItems(st, fault, purchaseId, items, i) ==
    IF i > Len(items) THEN st
    ELSE LET item == items[i]
             AddStock == [r \in st.db.products |->
                             [r EXCEPT !.stock_quantity = @ + item.quantity,
                                       !.cost = item.unit_cost]]
             s1 == Insert(st, fault, "purchase_items",
                          [purchase_id |-> purchaseId, product_id |-> item.product_id,
                           quantity |-> item.quantity, unit_cost |-> item.unit_cost])
             s2 == Update(s1, fault, "products", item.product_id, AddStock)
         IN PurchaseItems(s2, fault, purchaseId, items, i + 1)

\* Mutant of PurchaseBody: the 'payment' row is written unless the status
\* is 'unpaid'.
PurchaseBodyPartialPaid(d, body, fault) ==
    LET purchaseId == NextId(d, "purchases")
        s1 == Insert(Begin(d), fault, "purchases",
                     [supplier_id |-> body.supplier_id, user_id |-> body.user_id,
                      total_amount |-> body.total_amount,
                      payment_status |-> body.payment_status])
        s2 == Insert(s1, fault, "supplier_transactions",
                     [supplier_id |-> body.supplier_id, type |-> "purchase",
                      amount |-> body.total_amount])
        s3 == IF body.payment_status # "unpaid"
              THEN Insert(s2, fault, "supplier_transactions",
                          [supplier_id |-> body.supplier_id, type |-> "payment",
                           amount |-> body.total_amount])
              ELSE s2
        s4 == updateSupplierBalance(s3, fault, body.supplier_id)
    IN PurchaseItems(s4, fault, purchaseId, body.items, 1)

\* The function POST /api/purchases hands to db.transaction.
PurchaseBody(d, body, fault) ==
    LET purchaseId == NextId(d, "purchases")
        s1 == Insert(Begin(d), fault, "purchases",
                     [supplier_id |-> body.supplier_id, user_id |-> body.user_id,
                      total_amount |-> body.total_amount,
                      payment_status |-> body.payment_status])
        s2 == Insert(s1, fault, "supplier_transactions",
                     [supplier_id |-> body.supplier_id, type |-> "purchase",
                      amount |-> body.total_amount])
        s3 == IF body.payment_status = "paid"
              THEN Insert(s2, fault, "supplier_transactions",
                          [supplier_id |-> body.supplier_id, type |-> "payment",
                           amount |-> body.total_amount])
              ELSE s2
        s4 == updateSupplierBalance(s3, fault, body.supplier_id)
    IN PurchaseItems(s4, fault, purchaseId, body.items, 1)

\* POST /api/payments: INSERT, then updateCustomerBalance.
PaymentBody(d, body, fault) ==
    updateCustomerBalance(
        Insert(Begin(d), fault, "transactions",
               [customer_id |-> body.customer_id, type |-> "payment",
                amount |-> body.amount]),
        fault, body.customer_id)

\* POST /api/supplier-payments: INSERT, then updateSupplierBalance.
SupplierPaymentBody(d, body, fault) ==
    updateSupplierBalance(
        Insert(Begin(d), fault, "supplier_transactions",
               [supplier_id |-> body.supplier_id, type |-> "payment",
                amount |-> body.amount]),
        fault, body.supplier_id)

\* Mutant of StockAdjustmentBody: a 'correction' adds to the stock.
StockAdjustmentBodyCorrectionAdds(d, body, fault) ==
    LET s1 == Insert(Begin(d), fault, "stock_adjustments",
                     [product_id |-> body.product_id, type |-> body.type,
                      quantity |-> body.quantity])
        TakeStock == [r \in s1.db.products |->
                         [r EXCEPT !.stock_quantity =
                             IF body.type = "correction"
                             THEN @ + body.quantity ELSE @ - body.quantity]]
    IN Update(s1, fault, "products", body.product_id, TakeStock)

\* The function POST /api/stock-adjustments hands to db.transaction.
StockAdjustmentBody(d, body, fault) ==
    LET s1 == Insert(Begin(d), fault, "stock_adjustments",
                     [product_id |-> body.product_id, type |-> body.type,
                      quantity |-> body.quantity])
        TakeStock == [r \in s1.db.products |->
                         [r EXCEPT !.stock_quantity = @ - body.quantity]]
    IN Update(s1, fault, "products", body.product_id, TakeStock)

\* Mutant of LedgerEntryBody: a revenue is also booked as a payment of
\* customer 1, lowering its balance.
LedgerEntryBodyCreditsCustomer(d, body, fault) ==
    LET s1 == Insert(Begin(d), fault, "general_ledger",
                     [type |-> body.type, amount |-> body.amount])
        SetBalance == [r \in s1.db.customers |->
                          [r EXCEPT !.balance = @ - body.amount]]
    IN IF body.type = "revenue"
       THEN Update(s1, fault, "customers", 1, SetBalance)
       ELSE s1

\* Mutant of LedgerEntryBody: INSERT OR REPLACE under the id of the latest
\* entry, which the new entry overwrites.
LedgerEntryBodyReplacing(d, body, fault) ==
    LET new == [id |-> Max(1, MaxId(d.general_ledger)),
                type |-> body.type, amount |-> body.amount]
    IN Stmt(Begin(d), fault, CheckOK("general_ledger", new),
            [d EXCEPT !.general_ledger = {r \in @ : r.id # new.id} \cup {new},
                      !.sqlite_sequence.general_ledger = new.id])

\* POST /api/ledger: one INSERT INTO general_ledger.
LedgerEntryBody(d, body, fault) ==
    Insert(Begin(d), fault, "general_ledger",
           [type |-> body.type, amount |-> body.amount])

\* PUT /api/products/:id: one UPDATE of the row's columns, opening_stock
\* not among them; it throws when another row has the new sku.
UpdateProductBody(d, id, body, fault) ==
    LET Set == [r \in d.products |->
                   [r EXCEPT !.sku = body.sku, !.cost = body.cost,
                             !.stock_quantity = body.stock_quantity]]
        others == {r \in d.products : r.id # id}
    IN Stmt(Begin(d), fault,
            (\E r \in d.products : r.id = id)
                => \A r \in others : r.sku # body.sku \/ body.sku = NullText,
            [d EXCEPT !.products = {IF r.id = id THEN Set[r] ELSE r : r \in @}])

(***************************************************************************)
(* Backup codec.                                                           *)
(***************************************************************************)
\* GET /api/backup/export: backup[table] = SELECT * FROM table, every table.
Export(d) == [t \in TableNames |-> d[t]]

RECURSIVE InsertRows(_, _, _, _)
\* backup[table].forEach(row => insert.run(...))
InsertRows(st, fault, t, rows) ==
    IF rows = {} THEN st
    ELSE LET row == CHOOSE r \in rows : TRUE
         IN InsertRows(InsertWithId(st, fault, t, row), fault, t, rows \ {row})

RECURSIVE ImportTablesSkippingEmpty(_, _, _, _)
\* Mutant of ImportTables: an empty array counts as no entry, and the
\* table's rows are not deleted.
ImportTablesSkippingEmpty(st, fault, backup, i) ==
    IF i > Len(TABLES) THEN st
    ELSE LET t == TABLES[i]
             s1 == Stmt(st, fault, DeleteOK(st.db, t), [st.db EXCEPT ![t] = {}])
             s2 == IF t \in DOMAIN backup /\ backup[t] # {}
                   THEN InsertRows(s1, fault, t, backup[t])
                   ELSE st
         IN ImportTablesSkippingEmpty(s2, fault, backup, i + 1)

RECURSIVE ImportTables(_, _, _, _)
\* TABLES.forEach(table => { if (backup[table]) { DELETE; INSERT each row } })
ImportTables(st, fault, backup, i) ==
    IF i > Len(TABLES) THEN st
    ELSE LET t == TABLES[i]
             s1 == Stmt(st, fault, DeleteOK(st.db, t), [st.db EXCEPT ![t] = {}])
             s2 == IF t \in DOMAIN backup
                   THEN InsertRows(s1, fault, t, backup[t])
                   ELSE st
         IN ImportTables(s2, fault, backup, i + 1)

\* The function POST /api/backup/import hands to db.transaction.
ImportBody(d, backup, fault) == ImportTables(Begin(d), fault, backup, 1)

(***************************************************************************)
(* Snapshots a client may send back: the export it received, as it is or   *)
(* edited by hand.                                                         *)
(***************************************************************************)
WithoutTable(e, t) == [x \in DOMAIN e \ {t} |-> e[x]]

WithEmptyTable(e, t) == [e EXCEPT ![t] = {}]

\* every balance of table t overwritten with one the movement rows cannot give
WithOtherBalances(e, t) ==
    [e EXCEPT ![t] = {[r EXCEPT !.balance = MaxAmount + 1] : r \in @}]

\* a general_ledger row whose type the CHECK constraint refuses
WithBadLedgerRow(e) ==
    [e EXCEPT !.general_ledger =
        @ \cup {[id |-> MaxId(@) + 1, type |-> "transfer", amount |-> 1]}]

EditedTables == {"customers", "supplier_transactions"}

Snapshots(e) ==
    {e, WithBadLedgerRow(e), WithBadLedgerRow(WithEmptyTable(e, "customers"))}
    \cup {WithoutTable(e, t) : t \in EditedTables}
    \cup {WithEmptyTable(e, t) : t \in EditedTables}
    \cup {WithOtherBalances(e, t) : t \in {"customers", "suppliers"}}

(***************************************************************************)
(* The state after construction: schema created, default settings, admin.  *)
(***************************************************************************)
NoBody == [t \in {} |-> {}]

Init ==
    /\ db = [t \in TableNames \cup {"sqlite_sequence"} |->
                CASE t = "users" -> {[id |-> 1, username |-> "admin", role |-> "admin"]}
                  [] t = "settings" -> {[key |-> "currency", value |-> "USD"],
                                        [key |-> "rate_yer", value |-> "530"],
                                        [key |-> "rate_sar", value |-> "3.75"]}
                  [] t = "sqlite_sequence" ->
                        [a \in AutoTables |-> IF a = "users" THEN 1 ELSE 0]
                  [] OTHER -> {}]
    /\ foreign_keys \in BOOLEAN
    /\ req = [op |-> "listen", fault |-> 0]
    /\ res = [status |-> 200, stmts |-> 0, body |-> NoBody]

(***************************************************************************)
(* Handlers.                                                               *)
(***************************************************************************)
\* res.json(...) when the handler's statements all ran, the error status
\* (its catch block's, or Express's 500 for an uncaught throw) otherwise.
Respond(st, errStatus) ==
    [status |-> IF st.ok THEN 200 ELSE errStatus, stmts |-> st.n, body |-> NoBody]

\* POST /api/customers
CreateCustomer(opening_balance) ==
    LET st == Insert(Begin(db), 0, "customers",
                     [opening_balance |-> opening_balance, balance |-> opening_balance])
    IN /\ NextId(db, "customers") <= MaxCustomers
       /\ db' = AutoCommit(db, st)
       /\ req' = [op |-> "customer", body |-> [opening_balance |-> opening_balance],
                  fault |-> 0]
       /\ res' = Respond(st, 500)
       /\ UNCHANGED foreign_keys

\* POST /api/suppliers: balance takes its DEFAULT 0
CreateSupplier ==
    LET st == Insert(Begin(db), 0, "suppliers", [balance |-> 0])
    IN /\ NextId(db, "suppliers") <= MaxSuppliers
       /\ db' = AutoCommit(db, st)
       /\ req' = [op |-> "supplier", fault |-> 0]
       /\ res' = Respond(st, 500)
       /\ UNCHANGED foreign_keys

\* POST /api/products
CreateProduct(body) ==
    LET st == Insert(Begin(db), 0, "products",
                     [sku |-> body.sku, cost |-> body.cost,
                      stock_quantity |-> body.stock_quantity,
                      opening_stock |-> IF Truthy(body.opening_stock)
                                        THEN body.opening_stock
                                        ELSE body.stock_quantity])
    IN /\ NextId(db, "products") <= MaxProducts + 1
       /\ db' = AutoCommit(db, st)
       /\ req' = [op |-> "product", body |-> body, fault |-> 0]
       /\ res' = Respond(st, 400)
       /\ UNCHANGED foreign_keys

\* PUT /api/products/:id: no try/catch, so a throw becomes Express's 500
UpdateProduct(id, body, fault) ==
    LET st == UpdateProductBody(db, id, body, fault)
    IN /\ db' = AutoCommit(db, st)
       /\ req' = [op |-> "product_update", id |-> id, body |-> body, fault |-> fault]
       /\ res' = Respond(st, 500)
       /\ UNCHANGED foreign_keys

\* updateCustomerBalance(customerId), called on its own
RecalculateCustomer(customerId) ==
    LET st == updateCustomerBalance(Begin(db), 0, customerId)
    IN /\ db' = AutoCommit(db, st)
       /\ req' = [op |-> "updateCustomerBalance", id |-> customerId, fault |-> 0]
       /\ res' = Respond(st, 500)
       /\ UNCHANGED foreign_keys

\* updateSupplierBalance(supplierId), called on its own
RecalculateSupplier(supplierId) ==
    LET st == updateSupplierBalance(Begin(db), 0, supplierId)
    IN /\ db' = AutoCommit(db, st)
       /\ req' = [op |-> "updateSupplierBalance", id |-> supplierId, fault |-> 0]
       /\ res' = Respond(st, 500)
       /\ UNCHANGED foreign_keys

\* POST /api/sales
RecordSale(body, fault) ==
    LET st == SaleBody(db, body, fault)
    IN /\ NextId(db, "sales") <= MaxHeaders
       /\ NextId(db, "transactions") < MaxRows
       /\ db' = Transaction(db, st)
       /\ req' = [op |-> "sale", body |-> body, fault |-> fault]
       /\ res' = Respond(st, 400)
       /\ UNCHANGED foreign_keys

\* POST /api/payments
RecordCustomerPayment(body, fault) ==
    LET st == PaymentBody(db, body, fault)
    IN /\ NextId(db, "transactions") <= MaxRows
       /\ db' = AutoCommit(db, st)
       /\ req' = [op |-> "payment", body |-> body, fault |-> fault]
       /\ res' = Respond(st, 500)
       /\ UNCHANGED foreign_keys

\* POST /api/purchases
RecordPurchase(body, fault) ==
    LET st == PurchaseBody(db, body, fault)
    IN /\ NextId(db, "purchases") <= MaxHeaders
       /\ NextId(db, "supplier_transactions") < MaxRows
       /\ db' = Transaction(db, st)
       /\ req' = [op |-> "purchase", body |-> body, fault |-> fault]
       /\ res' = Respond(st, 400)
       /\ UNCHANGED foreign_keys

\* POST /api/supplier-payments
RecordSupplierPayment(body, fault) ==
    LET st == SupplierPaymentBody(db, body, fault)
    IN /\ NextId(db, "supplier_transactions") <= MaxRows
       /\ db' = AutoCommit(db, st)
       /\ req' = [op |-> "supplier_payment", body |-> body, fault |-> fault]
       /\ res' = Respond(st, 400)
       /\ UNCHANGED foreign_keys

\* POST /api/stock-adjustments
RecordStockAdjustment(body, fault) ==
    LET st == StockAdjustmentBody(db, body, fault)
    IN /\ NextId(db, "stock_adjustments") <= MaxHeaders
       /\ db' = Transaction(db, st)
       /\ req' = [op |-> "adjustment", body |-> body, fault |-> fault]
       /\ res' = Respond(st, 400)
       /\ UNCHANGED foreign_keys

\* POST /api/ledger
RecordLedgerEntry(body, fault) ==
    LET st == LedgerEntryBody(db, body, fault)
    IN /\ NextId(db, "general_ledger") <= MaxRows
       /\ db' = AutoCommit(db, st)
       /\ req' = [op |-> "ledger", body |-> body, fault |-> fault]
       /\ res' = Respond(st, 400)
       /\ UNCHANGED foreign_keys

\* GET /api/backup/export
ExportBackup ==
    /\ req.op # "export"
    /\ req' = [op |-> "export", fault |-> 0]
    /\ res' = [status |-> 200, stmts |-> Len(TABLES), body |-> Export(db)]
    /\ UNCHANGED <<db, foreign_keys>>

\* POST /api/backup/import, of the export just received or an edit of it
ImportBackup(backup, fault) ==
    LET st == ImportBody(db, backup, fault)
    IN /\ db' = Transaction(db, st)
       /\ req' = [op |-> "import", backup |-> backup, fault |-> fault]
       /\ res' = Respond(st, 500)
       /\ UNCHANGED foreign_keys

(***************************************************************************)
(* Requests.  A request is a body and the statement an I/O error strikes.  *)
(***************************************************************************)
Faults == 0..MaxFault

\* A party reference of a request: missing, or an id (of a row or of none).
CustomerIds == {NULL} \cup (1..MaxCustomers)

SupplierIds == {NULL} \cup (1..MaxSuppliers)

ProductBodies ==
    [sku : {"A"}, cost : {1}, stock_quantity : {MaxAmount}, opening_stock : {NULL}]

\* Products of either of two SKUs, and edits of a product or of none that
\* set the SKU and the stock.
SkuProductBodies ==
    [sku : {"A", "B"}, cost : {1}, stock_quantity : {MaxAmount}, opening_stock : {NULL}]

ProductUpdateBodies ==
    [sku : {"A", "B"}, cost : {1}, stock_quantity : {MaxAmount, MaxAmount + 1}]

ProductUpdateRequests ==
    {[id |-> i, body |-> b, fault |-> 0] :
        i \in 1..MaxProducts + 2, b \in ProductUpdateBodies}
    \cup {[id |-> 1, body |-> b, fault |-> 1] :
            b \in [sku : {"B"}, cost : {1}, stock_quantity : {MaxAmount + 1}]}

\* Products created with the opening stock left out or given, other than
\* the stock; and edits of a product that set its stock.
StockProductBodies ==
    [sku : {"A"}, cost : {1}, stock_quantity : {MaxAmount},
     opening_stock : {NULL, MaxAmount + 1}]

StockUpdateBodies == [sku : {"A"}, cost : {1}, stock_quantity : {0, MaxAmount + 1}]

\* The i-th item of a cart names the products in turn.
ProductOf(i) == ((i - 1) % MaxProducts) + 1

\* A full cart, and the same with its last item naming no product.
SoldItems == [i \in 1..MaxItems |-> [product_id |-> ProductOf(i), quantity |-> 1]]

SaleItemLists ==
    {<< >>, SoldItems, [SoldItems EXCEPT ![MaxItems].product_id = MaxProducts + 1]}

\* user_id is the logged-in user's (the seeded admin's).
PaidSale ==
    [customer_id |-> 1, user_id |-> 1, total_amount |-> MaxAmount,
     payment_status |-> "paid", items |-> SoldItems]

\* Sales of each cart to anybody; a paid sale of a full cart to customer 1
\* with a payment status the schema rejects, and with each I/O error.
SaleRequests ==
    {[body |-> b, fault |-> 0] :
        b \in [customer_id : CustomerIds, user_id : {1}, total_amount : Amounts,
               payment_status : {"paid", "unpaid"}, items : SaleItemLists]}
    \cup {[body |-> [PaidSale EXCEPT !.payment_status = "later"], fault |-> 0]}
    \cup {[body |-> PaidSale, fault |-> f] : f \in 1..MaxFault}

\* Sales to no customer: customer_id missing, or the 0 the sale form of the
\* UI starts with and sends when no customer is picked.
WalkInSaleBodies ==
    [customer_id : {NULL, 0}, user_id : {1}, total_amount : Amounts,
     payment_status : PaymentStatuses, items : {SubSeq(SoldItems, 1, 1), SoldItems}]

BoughtItems ==
    [i \in 1..MaxItems |-> [product_id |-> ProductOf(i), quantity |-> 1, unit_cost |-> 2]]

PurchaseItemLists ==
    {<< >>, BoughtItems, [BoughtItems EXCEPT ![MaxItems].product_id = MaxProducts + 1]}

PaidPurchase ==
    [supplier_id |-> 1, user_id |-> 1, total_amount |-> MaxAmount,
     payment_status |-> "paid", items |-> BoughtItems]

PurchaseRequests ==
    {[body |-> b, fault |-> 0] :
        b \in [supplier_id : SupplierIds, user_id : {1}, total_amount : Amounts,
               payment_status : {"paid", "unpaid"}, items : PurchaseItemLists]}
    \cup {[body |-> [PaidPurchase EXCEPT !.payment_status = "later"], fault |-> 0]}
    \cup {[body |-> PaidPurchase, fault |-> f] : f \in 1..MaxFault}

\* Purchases from supplier 1 of carts of every length, each item at one of
\* two unit costs, both other than a new product's cost.
CostedItemLists ==
    UNION {{[i \in 1..n |-> [product_id |-> ProductOf(i), quantity |-> 1,
                             unit_cost |-> c[i]]] : c \in [1..n -> {2, 3}]} :
             n \in 0..MaxItems}

CostedPurchaseBodies ==
    [supplier_id : {1}, user_id : {1}, total_amount : {MaxAmount},
     payment_status : {"paid", "unpaid"}, items : CostedItemLists]

PaymentBodies == [customer_id : CustomerIds, amount : Amounts]

SupplierPaymentBodies == [supplier_id : SupplierIds, amount : Amounts]

\* Sales without items, as the ledger sees them.
LedgerSaleBodies ==
    [customer_id : CustomerIds, user_id : {1}, total_amount : Amounts,
     payment_status : {"paid", "unpaid"}, items : {<< >>}]

LedgerPaymentBodies == [customer_id : 1..MaxCustomers, amount : Amounts]

\* Sales on credit, unpaid or partly paid, without items.
CreditSaleBodies ==
    [customer_id : CustomerIds, user_id : {1}, total_amount : Amounts,
     payment_status : {"unpaid", "partial"}, items : {<< >>}]

\* Purchases of every payment status without items, and payments to a
\* supplier, as the supplier ledger sees them.
LedgerPurchaseBodies ==
    [supplier_id : SupplierIds, user_id : {1}, total_amount : Amounts,
     payment_status : PaymentStatuses, items : {<< >>}]

LedgerSupplierPaymentBodies == [supplier_id : 1..MaxSuppliers, amount : Amounts]

\* Stock adjustments of a product or of none, of every kind and of one the
\* schema rejects, by a quantity below, at and above zero; and one of them
\* with an I/O error at each of the handler's two statements.
AdjustmentBodies ==
    [product_id : 1..MaxProducts + 1,
     type : {"damaged", "lost", "correction", "found"},
     quantity : {0 - 1, 0} \cup Amounts]

AdjustmentRequests ==
    {[body |-> b, fault |-> 0] : b \in AdjustmentBodies}
    \cup {[body |-> [product_id |-> 1, type |-> "damaged", quantity |-> 1],
           fault |-> f] : f \in 1..2}

\* Requests as a client may send them with nothing checked: the party
\* missing, or the amount missing, negative or zero.
UncheckedAmounts == {NULL, 0 - 1, 0}

UncheckedPaymentBodies ==
    [customer_id : {NULL}, amount : Amounts]
    \cup [customer_id : 1..MaxCustomers, amount : UncheckedAmounts]

UncheckedSupplierPaymentBodies ==
    [supplier_id : {NULL}, amount : Amounts]
    \cup [supplier_id : 1..MaxSuppliers, amount : UncheckedAmounts]

UncheckedPurchaseBodies ==
    [supplier_id : SupplierIds, user_id : {1}, total_amount : Amounts,
     payment_status : {"unpaid"}, items : {<< >>}]

\* Ledger entries of each kind, of a kind the schema rejects and of none;
\* and one of them with an I/O error at the handler's only statement.
LedgerBodies ==
    [type : {"revenue", "expense", "transfer", NullText}, amount : Amounts]

LedgerRequests ==
    {[body |-> b, fault |-> 0] : b \in LedgerBodies}
    \cup {[body |-> [type |-> "revenue", amount |-> MaxAmount], fault |-> 1]}

\* Sales and purchases on credit without items.
BackupSaleBodies ==
    [customer_id : 1..MaxCustomers, user_id : {1}, total_amount : {MaxAmount},
     payment_status : {"unpaid"}, items : {<< >>}]

BackupPurchaseBodies ==
    [supplier_id : 1..MaxSuppliers, user_id : {1}, total_amount : {MaxAmount},
     payment_status : {"unpaid"}, items : {<< >>}]

\* The tables of movement rows.
MovementTables ==
    {"sales", "purchases", "transactions", "supplier_transactions",
     "stock_adjustments", "general_ledger"}

\* One movement of each remaining kind: a stock adjustment and a ledger entry.
MovementAdjustmentBodies ==
    [product_id : 1..MaxProducts, type : {"damaged"}, quantity : {MaxAmount}]

MovementLedgerBodies == [type : {"revenue", "expense"}, amount : {MaxAmount}]

\* The export just received, as it is or with one movement table emptied.
MovementSnapshots(e) == {e} \cup {WithEmptyTable(e, t) : t \in MovementTables}

\* Movements on credit of each of several parties, without items.
IsolationSaleBodies ==
    [customer_id : 1..MaxCustomers + 1, user_id : {1}, total_amount : {MaxAmount},
     payment_status : {"unpaid"}, items : {<< >>}]

IsolationPaymentBodies == [customer_id : 1..MaxCustomers + 1, amount : Amounts]

IsolationPurchaseBodies ==
    [supplier_id : 1..MaxSuppliers + 1, user_id : {1}, total_amount : {MaxAmount},
     payment_status : {"unpaid"}, items : {<< >>}]

IsolationSupplierPaymentBodies == [supplier_id : 1..MaxSuppliers + 1, amount : Amounts]

\* Imports of the export e just received: e and each edit of it, and e with
\* each I/O error.
ImportRequests(e) ==
    {[backup |-> s, fault |-> 0] : s \in Snapshots(e)}
    \cup {[backup |-> e, fault |-> f] : f \in 1..MaxFault}

(***************************************************************************)
(* Specifications: sales, the customer ledger, purchases, payments, backup.*)
(***************************************************************************)
NextSales ==
    \/ CreateCustomer(0)
    \/ \E body \in ProductBodies : CreateProduct(body)
    \/ \E r \in SaleRequests : RecordSale(r.body, r.fault)

SpecSales == Init /\ [][NextSales]_vars

NextCustomers ==
    \/ \E b \in 0..1 : CreateCustomer(b)
    \/ \E body \in LedgerSaleBodies : RecordSale(body, 0)
    \/ \E body \in LedgerPaymentBodies : RecordCustomerPayment(body, 0)

SpecCustomers == Init /\ [][NextCustomers]_vars

NextCredit ==
    \/ \E b \in 0..1 : CreateCustomer(b)
    \/ \E body \in CreditSaleBodies : RecordSale(body, 0)
    \/ \E body \in LedgerPaymentBodies : RecordCustomerPayment(body, 0)

SpecCredit == Init /\ [][NextCredit]_vars

NextPurchases ==
    \/ CreateSupplier
    \/ \E body \in ProductBodies : CreateProduct(body)
    \/ \E r \in PurchaseRequests : RecordPurchase(r.body, r.fault)

SpecPurchases == Init /\ [][NextPurchases]_vars

NextCosts ==
    \/ CreateSupplier
    \/ \E body \in ProductBodies : CreateProduct(body)
    \/ \E body \in CostedPurchaseBodies : RecordPurchase(body, 0)

SpecCosts == Init /\ [][NextCosts]_vars

NextSuppliers ==
    \/ CreateSupplier
    \/ \E body \in LedgerPurchaseBodies : RecordPurchase(body, 0)
    \/ \E body \in LedgerSupplierPaymentBodies : RecordSupplierPayment(body, 0)

SpecSuppliers == Init /\ [][NextSuppliers]_vars

NextAdjustments ==
    \/ \E body \in ProductBodies : CreateProduct(body)
    \/ \E r \in AdjustmentRequests : RecordStockAdjustment(r.body, r.fault)

SpecAdjustments == Init /\ [][NextAdjustments]_vars

NextUnchecked ==
    \/ CreateCustomer(0)
    \/ CreateSupplier
    \/ \E body \in UncheckedPaymentBodies : RecordCustomerPayment(body, 0)
    \/ \E body \in UncheckedSupplierPaymentBodies : RecordSupplierPayment(body, 0)
    \/ \E body \in UncheckedPurchaseBodies : RecordPurchase(body, 0)


NextLedger ==
    \/ CreateCustomer(1)
    \/ CreateSupplier
    \/ \E body \in ProductBodies : CreateProduct(body)
    \/ \E r \in LedgerRequests : RecordLedgerEntry(r.body, r.fault)

SpecLedger == Init /\ [][NextLedger]_vars

NextPayments ==
    \/ \E b \in 0..1 : CreateCustomer(b)
    \/ CreateSupplier
    \/ \E body \in PaymentBodies, f \in Faults : RecordCustomerPayment(body, f)
    \/ \E body \in SupplierPaymentBodies, f \in Faults : RecordSupplierPayment(body, f)

SpecPayments == Init /\ [][NextPayments]_vars

NextBackup ==
    \/ CreateCustomer(0)
    \/ CreateSupplier
    \/ \E body \in BackupSaleBodies : RecordSale(body, 0)
    \/ \E body \in BackupPurchaseBodies : RecordPurchase(body, 0)
    \/ ExportBackup
    \/ /\ req.op = "export"
       /\ \E r \in ImportRequests(res.body) : ImportBackup(r.backup, r.fault)

SpecBackup == Init /\ [][NextBackup]_vars

\* The same under the stock build of better-sqlite3, which compiles SQLite
\* with foreign keys enforced by default.
InitEnforced == Init /\ foreign_keys = TRUE

SpecBackupEnforced == InitEnforced /\ [][NextBackup]_vars

SpecUnchecked == InitEnforced /\ [][NextUnchecked]_vars

\* Requests arriving in any order, each handler running to its end before
\* the next starts: sales of a full cart and payments with each I/O error,
\* and exports reading every table in between.
NextReads ==
    \/ CreateCustomer(0)
    \/ \E body \in ProductBodies : CreateProduct(body)
    \/ \E f \in Faults : RecordSale(PaidSale, f)
    \/ \E body \in LedgerPaymentBodies, f \in Faults : RecordCustomerPayment(body, f)
    \/ ExportBackup

SpecReads == InitEnforced /\ [][NextReads]_vars

NextProducts ==
    \/ \E body \in SkuProductBodies : CreateProduct(body)
    \/ \E r \in ProductUpdateRequests : UpdateProduct(r.id, r.body, r.fault)

SpecProducts == Init /\ [][NextProducts]_vars

NextWalkIn ==
    \/ \E b \in 0..1 : CreateCustomer(b)
    \/ \E body \in ProductBodies : CreateProduct(body)
    \/ \E body \in WalkInSaleBodies : RecordSale(body, 0)

SpecWalkIn == InitEnforced /\ [][NextWalkIn]_vars

RECURSIVE RowsEverIn(_, _)
\* the number of rows ever inserted in the tables ts of store d, restored
\* ones included: the sum of their AUTOINCREMENT counters
RowsEverIn(d, ts) ==
    IF ts = {} THEN 0
    ELSE LET t == CHOOSE x \in ts : TRUE
         IN d.sqlite_sequence[t] + RowsEverIn(d, ts \ {t})

PartyTables == {"customers", "suppliers", "products"}

\* Everything that writes a product's stock: creations, edits, sales to no
\* customer, purchases and stock adjustments.
NextStock ==
    \/ CreateSupplier
    \/ \E body \in StockProductBodies : CreateProduct(body)
    \/ \E id \in 1..MaxProducts, body \in StockUpdateBodies : UpdateProduct(id, body, 0)
    \/ RecordSale([PaidSale EXCEPT !.customer_id = NULL], 0)
    \/ RecordPurchase(PaidPurchase, 0)
    \/ \E body \in MovementAdjustmentBodies : RecordStockAdjustment(body, 0)

SpecStock == InitEnforced /\ [][NextStock]_vars

\* The recalculators applied to every party, with rows in its log or
\* without, and to an identifier of no party, until MaxRows parties and
\* payments have been inserted.
NextRecalculators ==
    \/ /\ RowsEverIn(db, PartyTables \cup MovementTables) < MaxRows
       /\ \/ \E b \in 0..1 : CreateCustomer(b)
          \/ CreateSupplier
          \/ \E body \in LedgerPaymentBodies : RecordCustomerPayment(body, 0)
          \/ \E body \in LedgerSupplierPaymentBodies : RecordSupplierPayment(body, 0)
    \/ \E id \in 1..MaxCustomers + 1 : RecalculateCustomer(id)
    \/ \E id \in 1..MaxSuppliers + 1 : RecalculateSupplier(id)

SpecRecalculators == Init /\ [][NextRecalculators]_vars

\* A store in which MaxCustomers + 1 customers, each with an opening
\* balance of 1, and MaxSuppliers + 1 suppliers have been created.
InitParties ==
    /\ db = [t \in TableNames \cup {"sqlite_sequence"} |->
                CASE t = "users" -> {[id |-> 1, username |-> "admin", role |-> "admin"]}
                  [] t = "settings" -> {[key |-> "currency", value |-> "USD"],
                                        [key |-> "rate_yer", value |-> "530"],
                                        [key |-> "rate_sar", value |-> "3.75"]}
                  [] t = "customers" ->
                        {[id |-> i, opening_balance |-> 1, balance |-> 1] :
                            i \in 1..MaxCustomers + 1}
                  [] t = "suppliers" ->
                        {[id |-> i, balance |-> 0] : i \in 1..MaxSuppliers + 1}
                  [] t = "sqlite_sequence" ->
                        [a \in AutoTables |->
                            CASE a = "users" -> 1
                              [] a = "customers" -> MaxCustomers + 1
                              [] a = "suppliers" -> MaxSuppliers + 1
                              [] OTHER -> 0]
                  [] OTHER -> {}]
    /\ foreign_keys \in BOOLEAN
    /\ req = [op |-> "supplier", fault |-> 0]
    /\ res = [status |-> 200, stmts |-> 1, body |-> NoBody]

\* Sales and payments of each customer and purchases and payments of each
\* supplier, until MaxRows movement rows have been inserted.
NextIsolation ==
    /\ RowsEverIn(db, MovementTables) < MaxRows
    /\ \/ \E body \in IsolationSaleBodies : RecordSale(body, 0)
       \/ \E body \in IsolationPaymentBodies : RecordCustomerPayment(body, 0)
       \/ \E body \in IsolationPurchaseBodies : RecordPurchase(body, 0)
       \/ \E body \in IsolationSupplierPaymentBodies : RecordSupplierPayment(body, 0)

SpecIsolation == InitParties /\ [][NextIsolation]_vars

\* Customers created with and without an opening balance, their sales on
\* credit and their payments, until more than MaxRows rows of them have
\* been inserted.
NextOpening ==
    /\ RowsEverIn(db, PartyTables \cup MovementTables) <= MaxRows
    /\ \/ \E b \in 0..1 : CreateCustomer(b)
       \/ \E body \in CreditSaleBodies : RecordSale(body, 0)
       \/ \E body \in LedgerPaymentBodies : RecordCustomerPayment(body, 0)

SpecOpening == Init /\ [][NextOpening]_vars

\* Restores of the export just received, as it is or with the array of a
\* table of parties or movements emptied, on stores of customers,
\* suppliers and sales on credit.
NextRestores ==
    \/ CreateCustomer(0)
    \/ CreateSupplier
    \/ \E body \in BackupSaleBodies : RecordSale(body, 0)
    \/ ExportBackup
    \/ /\ req.op = "export"
       /\ \E s \in {res.body} \cup {WithEmptyTable(res.body, t) :
                                      t \in {"customers", "suppliers"} \cup MovementTables} :
            ImportBackup(s, 0)

SpecRestores == Init /\ [][NextRestores]_vars

\* Parties, products and movements of every kind, until MaxRows rows of
\* them have been inserted, with exports and restores in between.
NextMovements ==
    \/ /\ RowsEverIn(db, PartyTables \cup MovementTables) < MaxRows
       /\ \/ CreateCustomer(0)
          \/ CreateSupplier
          \/ \E body \in ProductBodies : CreateProduct(body)
          \/ \E body \in BackupSaleBodies : RecordSale(body, 0)
          \/ \E body \in BackupPurchaseBodies : RecordPurchase(body, 0)
          \/ \E body \in LedgerPaymentBodies : RecordCustomerPayment(body, 0)
          \/ \E body \in LedgerSupplierPaymentBodies : RecordSupplierPayment(body, 0)
          \/ \E body \in MovementAdjustmentBodies : RecordStockAdjustment(body, 0)
          \/ \E body \in MovementLedgerBodies : RecordLedgerEntry(body, 0)
    \/ ExportBackup
    \/ /\ req.op = "export"
       /\ \E s \in MovementSnapshots(res.body) : ImportBackup(s, 0)

SpecMovements == InitEnforced /\ [][NextMovements]_vars

(***************************************************************************)
(* Properties.                                                             *)
(***************************************************************************)
\* The balance the movement log gives a party: the amounts of its rows of
\* the debt-raising kind minus the amounts of its payment rows.
LedgerBalance(rows, col, id, debit) ==
    SumAmounts({r \in rows : r[col] = id /\ r.type = debit})
    - SumAmounts({r \in rows : r[col] = id /\ r.type = "payment"})

CustomersMatchLog(d) ==
    \A c \in d.customers :
        c.balance = LedgerBalance(d.transactions, "customer_id", c.id, "sale")

SuppliersMatchLog(d) ==
    \A s \in d.suppliers :
        s.balance = LedgerBalance(d.supplier_transactions, "supplier_id", s.id, "purchase")

\* C1: after every completed operation each customer's balance equals the
\* sum of its 'sale' Transaction amounts minus the sum of its 'payment'
\* Transaction amounts.
C1_CustomerBalanceIsLogAggregate == CustomersMatchLog(db)

\* C2: after every completed operation each supplier's balance equals the
\* sum of its 'purchase' SupplierTransaction amounts minus the sum of its
\* 'payment' amounts.
C2_SupplierBalanceIsLogAggregate == SuppliersMatchLog(db)

RECURSIVE QuantityOf(_, _, _)
\* the total quantity of the items from the i-th on that name product pid
QuantityOf(items, pid, i) ==
    IF i > Len(items) THEN 0
    ELSE (IF items[i].product_id = pid THEN items[i].quantity ELSE 0)
         + QuantityOf(items, pid, i + 1)

\* Every write of a sale with request body b is visible in d2, d being the
\* store before it: the header, one item row per item, each product's stock
\* lowered, and for a customer its movement rows and its recomputed balance.
SaleVisible(d, d2, b) ==
    LET newSales == d2.sales \ d.sales
        newItems == d2.sale_items \ d.sale_items
        newRows == d2.transactions \ d.transactions
    IN /\ d.sales \subseteq d2.sales
       /\ d.sale_items \subseteq d2.sale_items
       /\ d.transactions \subseteq d2.transactions
       /\ Cardinality(newSales) = 1
       /\ \A s \in newSales :
            /\ s.customer_id = b.customer_id
            /\ s.total_amount = b.total_amount
            /\ s.payment_status = b.payment_status
            /\ \A it \in newItems : it.sale_id = s.id
       /\ Cardinality(newItems) = Len(b.items)
       /\ {p.id : p \in d2.products} = {p.id : p \in d.products}
       /\ \A p \in d.products : \A q \in d2.products :
            q.id = p.id =>
                q.stock_quantity = p.stock_quantity - QuantityOf(b.items, p.id, 1)
       /\ IF Truthy(b.customer_id)
          THEN /\ Cardinality(newRows) = (IF b.payment_status = "paid" THEN 2 ELSE 1)
               /\ \E r \in newRows : r.type = "sale"
               /\ \A r \in newRows :
                    r.customer_id = b.customer_id /\ r.amount = b.total_amount
               /\ \A c \in d2.customers :
                    c.id = b.customer_id =>
                        c.balance = LedgerBalance(d2.transactions, "customer_id",
                                                  c.id, "sale")
          ELSE newRows = {} /\ d2.customers = d.customers

\* C3: RecordSale is all-or-nothing: when any of its writes fails, every
\* table is exactly as before the request and an error (400) is returned;
\* otherwise all its writes are visible together.
C3_SaleAllOrNothing ==
    [][req'.op = "sale" =>
        IF res'.status = 200
        THEN SaleVisible(db, db', req'.body)
        ELSE res'.status = 400 /\ db' = db]_vars

\* C3 witness: with no I/O error, a sale for a customer failed on its last
\* item, after the header, the movement rows, the balance and the first item
\* had been written.
C3_Witness ==
    /\ req.op = "sale"
    /\ res.status = 400
    /\ req.fault = 0
    /\ Truthy(req.body.customer_id)
    /\ Len(req.body.items) = MaxItems
    /\ res.stmts >= 7
    /\ db.customers # {}
    /\ db.products # {}

\* Every write of a purchase with request body b is visible in d2: the
\* header, one item row per item, each product's stock raised, the
\* supplier's movement rows and its recomputed balance.
PurchaseVisible(d, d2, b) ==
    LET newPurchases == d2.purchases \ d.purchases
        newItems == d2.purchase_items \ d.purchase_items
        newRows == d2.supplier_transactions \ d.supplier_transactions
    IN /\ d.purchases \subseteq d2.purchases
       /\ d.purchase_items \subseteq d2.purchase_items
       /\ d.supplier_transactions \subseteq d2.supplier_transactions
       /\ Cardinality(newPurchases) = 1
       /\ \A s \in newPurchases :
            /\ s.supplier_id = b.supplier_id
            /\ s.total_amount = b.total_amount
            /\ \A it \in newItems : it.purchase_id = s.id
       /\ Cardinality(newItems) = Len(b.items)
       /\ {p.id : p \in d2.products} = {p.id : p \in d.products}
       /\ \A p \in d.products : \A q \in d2.products :
            q.id = p.id =>
                q.stock_quantity = p.stock_quantity + QuantityOf(b.items, p.id, 1)
       /\ Cardinality(newRows) = (IF b.payment_status = "paid" THEN 2 ELSE 1)
       /\ \E r \in newRows : r.type = "purchase"
       /\ \A r \in newRows :
            r.supplier_id = b.supplier_id /\ r.amount = b.total_amount
       /\ \A c \in d2.suppliers :
            c.id = b.supplier_id =>
                c.balance = LedgerBalance(d2.supplier_transactions, "supplier_id",
                                          c.id, "purchase")

\* C4: RecordPurchase is all-or-nothing: when any write fails, every table
\* is exactly as before and a failure (400) is reported; otherwise the
\* supplier's balance and every item's stock are written together.
C4_PurchaseAllOrNothing ==
    [][req'.op = "purchase" =>
        IF res'.status = 200
        THEN PurchaseVisible(db, db', req'.body)
        ELSE res'.status = 400 /\ db' = db]_vars

\* C4 witness: with no I/O error, a purchase failed on its last item,
\* after the supplier's balance and the first item's stock had been written.
C4_Witness ==
    /\ req.op = "purchase"
    /\ res.status = 400
    /\ req.fault = 0
    /\ Len(req.body.items) = MaxItems
    /\ res.stmts >= 7
    /\ db.suppliers # {}
    /\ db.products # {}

\* C5: RecordCustomerPayment and RecordSupplierPayment are each one atomic
\* unit: when the request fails (the balance update included), the payment
\* row is not left in the store.
C5_PaymentsAtomic ==
    [][(/\ res'.status # 200
        /\ \/ /\ req'.op = "payment"
              /\ \E c \in db.customers : c.id = req'.body.customer_id
           \/ /\ req'.op = "supplier_payment"
              /\ \E c \in db.suppliers : c.id = req'.body.supplier_id)
       => db' = db]_vars

\* C10: a successful sale for customer C with payment_status 'paid' adds
\* exactly two Transaction rows for C, one 'sale' and one 'payment', both of
\* amount total_amount, and leaves the balance of C, if it matched the log
\* before, as it was.
C10_PaidSaleLeavesBalance ==
    [][(/\ req'.op = "sale"
        /\ res'.status = 200
        /\ Truthy(req'.body.customer_id)
        /\ req'.body.payment_status = "paid")
       => LET b == req'.body
              newRows == db'.transactions \ db.transactions
          IN /\ db.transactions \subseteq db'.transactions
             /\ Cardinality(newRows) = 2
             /\ \E s \in newRows : \E p \in newRows :
                    s.type = "sale" /\ p.type = "payment"
             /\ \A r \in newRows :
                    r.customer_id = b.customer_id /\ r.amount = b.total_amount
             /\ \A c \in db.customers :
                    (/\ c.id = b.customer_id
                     /\ c.balance = LedgerBalance(db.transactions, "customer_id",
                                                  c.id, "sale"))
                    => \E c2 \in db'.customers :
                          c2.id = c.id /\ c2.balance = c.balance]_vars

\* C10 witness: a paid sale succeeded for a customer whose balance, -1 after
\* an earlier payment, matched the log before the sale and still is -1.
C10_Witness ==
    /\ req.op = "sale"
    /\ res.status = 200
    /\ req.body.payment_status = "paid"
    /\ Cardinality(db.transactions) = 3
    /\ \E c \in db.customers : c.id = req.body.customer_id /\ c.balance = 0 - 1

\* C6: RestoreBackup is all-or-nothing over all tables: when a delete or an
\* insert fails part-way through the table order, every table holds exactly
\* the rows it held before the restore began.
C6_RestoreAllOrNothing ==
    [][(req'.op = "import" /\ res'.status # 200) => db' = db]_vars

\* C6 witness: with no I/O error, a restore failed on a general_ledger row
\* after the customers table, which held rows, had been replaced by the
\* snapshot's empty one; the customers are still there.
C6_Witness ==
    /\ req.op = "import"
    /\ res.status = 500
    /\ req.fault = 0
    /\ res.stmts > 14
    /\ req.backup.customers = {}
    /\ db.customers # {}

\* C7: an import of a partial snapshot (one without an entry for some known
\* table) is rejected as a whole: it reports an error and leaves every
\* table unchanged.
C7_PartialSnapshotRejected ==
    [][(req'.op = "import" /\ DOMAIN req'.backup # TableNames)
       => (res'.status # 200 /\ db' = db)]_vars

\* C8: an export followed at once by an import of that exact snapshot
\* succeeds and leaves every table with exactly the rows it had.
C8_ExportImportRoundTrip ==
    [][(/\ req.op = "export"
        /\ req'.op = "import"
        /\ req'.fault = 0
        /\ req'.backup = res.body)
       => (res'.status = 200 /\ Export(db') = Export(db))]_vars

\* C9: after a successful restore the balance of every restored customer
\* and supplier equals the aggregate of the restored movement rows.
C9_RestoreRecomputesBalances ==
    [][(req'.op = "import" /\ res'.status = 200)
       => (CustomersMatchLog(db') /\ SuppliersMatchLog(db'))]_vars

\* C11: a successful sale for customer X with payment_status 'unpaid' or
\* 'partial' adds exactly one Transaction row for X, of kind 'sale' and
\* amount total_amount, and no 'payment' row, and leaves X.balance at the
\* aggregate of X's prior log plus total_amount.
C11_CreditSaleRaisesBalance ==
    [][(/\ req'.op = "sale"
        /\ res'.status = 200
        /\ Truthy(req'.body.customer_id)
        /\ req'.body.payment_status \in {"unpaid", "partial"})
       => LET b == req'.body
              newRows == db'.transactions \ db.transactions
          IN /\ db.transactions \subseteq db'.transactions
             /\ Cardinality(newRows) = 1
             /\ \A r \in newRows :
                    /\ r.type = "sale"
                    /\ r.customer_id = b.customer_id
                    /\ r.amount = b.total_amount
             /\ \A c \in db'.customers :
                    c.id = b.customer_id =>
                        c.balance = LedgerBalance(db.transactions, "customer_id",
                                                  c.id, "sale") + b.total_amount]_vars

\* C11 witness: a partly paid sale succeeded for a customer with an earlier
\* payment in its log; its balance is the sale's amount less that payment.
C11_Witness ==
    /\ req.op = "sale"
    /\ res.status = 200
    /\ req.body.payment_status = "partial"
    /\ \E p \in db.transactions :
            /\ p.type = "payment"
            /\ p.customer_id = req.body.customer_id
            /\ \E c \in db.customers :
                    c.id = p.customer_id /\ c.balance = req.body.total_amount - p.amount

\* C12: a successful sale inserts one SaleItem per item and lowers the
\* stock_quantity of each product by exactly the sum of the quantities of
\* the items naming it, with no floor: the stock may end below zero.
C12_SaleTakesStockUnfloored ==
    [][(req'.op = "sale" /\ res'.status = 200)
       => LET items == req'.body.items
              newItems == db'.sale_items \ db.sale_items
          IN /\ db.sale_items \subseteq db'.sale_items
             /\ Cardinality(newItems) = Len(items)
             /\ \A i \in 1..Len(items) :
                    \E r \in newItems :
                        /\ r.product_id = items[i].product_id
                        /\ r.quantity = items[i].quantity
             /\ \A p \in db.products :
                    \E q \in db'.products :
                        /\ q.id = p.id
                        /\ q.stock_quantity
                              = p.stock_quantity - QuantityOf(items, p.id, 1)]_vars

\* C12 witness: a sale of more than the stock succeeded and left the
\* product's stock_quantity negative.
C12_Witness ==
    /\ req.op = "sale"
    /\ res.status = 200
    /\ \E p \in db.products :
            /\ QuantityOf(req.body.items, p.id, 1) > 0
            /\ p.stock_quantity < 0

\* the positions of the items naming product pid
ItemsNaming(items, pid) == {i \in 1..Len(items) : items[i].product_id = pid}

\* C13: a successful purchase raises each product's stock_quantity by
\* exactly the quantity purchased of it and overwrites its cost with the
\* unit_cost of the last item naming it, whatever the prior cost and stock;
\* a product no item names keeps its cost.
C13_PurchaseOverwritesCost ==
    [][(req'.op = "purchase" /\ res'.status = 200)
       => LET items == req'.body.items
          IN \A p \in db.products :
                \E q \in db'.products :
                    /\ q.id = p.id
                    /\ q.stock_quantity
                          = p.stock_quantity + QuantityOf(items, p.id, 1)
                    /\ q.cost = IF ItemsNaming(items, p.id) = {}
                                THEN p.cost
                                ELSE items[CHOOSE i \in ItemsNaming(items, p.id) :
                                             \A j \in ItemsNaming(items, p.id) : j <= i
                                          ].unit_cost]_vars

\* C13 witness: a purchase with two items naming the same product at
\* different unit costs succeeded; the product has the second item's cost.
C13_Witness ==
    /\ req.op = "purchase"
    /\ res.status = 200
    /\ Len(req.body.items) = 2
    /\ req.body.items[1].product_id = req.body.items[2].product_id
    /\ req.body.items[1].unit_cost > req.body.items[2].unit_cost
    /\ \E p \in db.products :
            /\ p.id = req.body.items[2].product_id
            /\ p.cost = req.body.items[2].unit_cost
            /\ p.stock_quantity = MaxAmount + 2

\* C14: a successful purchase for supplier S adds one 'purchase'
\* SupplierTransaction of amount total_amount, adds one 'payment' row of the
\* same amount if and only if payment_status is 'paid', and sets S.balance
\* to the aggregate of S's log: the prior aggregate for 'paid', the prior
\* aggregate plus total_amount for 'unpaid' and 'partial'.
C14_PurchaseMovesSupplierLog ==
    [][(/\ req'.op = "purchase"
        /\ res'.status = 200
        /\ Truthy(req'.body.supplier_id))
       => LET b == req'.body
              newRows == db'.supplier_transactions \ db.supplier_transactions
          IN /\ db.supplier_transactions \subseteq db'.supplier_transactions
             /\ \A r \in newRows :
                    r.supplier_id = b.supplier_id /\ r.amount = b.total_amount
             /\ Cardinality({r \in newRows : r.type = "purchase"}) = 1
             /\ Cardinality({r \in newRows : r.type = "payment"})
                   = (IF b.payment_status = "paid" THEN 1 ELSE 0)
             /\ Cardinality(newRows) = (IF b.payment_status = "paid" THEN 2 ELSE 1)
             /\ \A c \in db'.suppliers :
                    c.id = b.supplier_id =>
                        /\ c.balance = LedgerBalance(db'.supplier_transactions,
                                                     "supplier_id", c.id, "purchase")
                        /\ c.balance
                              = LedgerBalance(db.supplier_transactions,
                                              "supplier_id", c.id, "purchase")
                                + (IF b.payment_status = "paid"
                                   THEN 0 ELSE b.total_amount)]_vars

\* C14 witness: a partly paid purchase succeeded for a supplier with an
\* earlier payment in its log; its balance is the purchase's amount less
\* that payment.
C14_Witness ==
    /\ req.op = "purchase"
    /\ res.status = 200
    /\ req.body.payment_status = "partial"
    /\ Cardinality(db.supplier_transactions) = 2
    /\ \E p \in db.supplier_transactions :
            /\ p.type = "payment"
            /\ p.supplier_id = req.body.supplier_id
            /\ \E c \in db.suppliers :
                    c.id = p.supplier_id /\ c.balance = req.body.total_amount - p.amount

\* C15: a successful stock adjustment inserts one StockAdjustment row and
\* lowers the product's stock_quantity by exactly quantity, whatever its
\* kind (damaged, lost, correction); a failed one reports 400 and leaves
\* every table as it was.
C15_AdjustmentTakesStock ==
    [][req'.op = "adjustment" =>
        LET b == req'.body
            newRows == db'.stock_adjustments \ db.stock_adjustments
        IN IF res'.status = 200
           THEN /\ db.stock_adjustments \subseteq db'.stock_adjustments
                /\ Cardinality(newRows) = 1
                /\ \A r \in newRows :
                       /\ r.product_id = b.product_id
                       /\ r.type = b.type
                       /\ r.quantity = b.quantity
                /\ db'.products =
                       {IF p.id = b.product_id
                        THEN [p EXCEPT !.stock_quantity = @ - b.quantity]
                        ELSE p : p \in db.products}
           ELSE res'.status = 400 /\ db' = db]_vars

\* C15 witness: a 'correction' of a positive quantity succeeded and the
\* product's stock is that much below the stock it was created with.
C15_Witness ==
    /\ req.op = "adjustment"
    /\ res.status = 200
    /\ req.body.type = "correction"
    /\ req.body.quantity > 0
    /\ Cardinality(db.stock_adjustments) = 1
    /\ \E p \in db.products :
            /\ p.id = req.body.product_id
            /\ p.stock_quantity = p.opening_stock - req.body.quantity

\* C17: a stock adjustment of a product by a quantity of zero or less is
\* rejected before any write: it reports an error, no StockAdjustment row
\* is inserted and no product's stock_quantity changes, so that no stock
\* adjustment raises a stock.
C17_NonPositiveAdjustmentRejected ==
    [][(/\ req'.op = "adjustment"
        /\ req'.body.quantity <= 0
        /\ \E p \in db.products : p.id = req'.body.product_id)
       => (res'.status # 200 /\ db' = db)]_vars

\* C16: a sale whose items list is empty is rejected with a validation
\* error before any write, so that every Sale header in the store has at
\* least one SaleItem row.
C16_EmptySaleRejected ==
    [][(req'.op = "sale" /\ Len(req'.body.items) = 0)
       => (/\ res'.status # 200
           /\ db' = db
           /\ \A h \in db'.sales : \E it \in db'.sale_items : it.sale_id = h.id)]_vars

\* C18: an operation missing a required field is aborted before any write:
\* a customer payment without customer_id or amount, a supplier payment
\* without supplier_id or amount, and a purchase without supplier_id each
\* report an error and insert no row.
C18_MissingFieldAborts ==
    [][(\/ /\ req'.op = "payment"
           /\ (req'.body.customer_id = NULL \/ req'.body.amount = NULL)
        \/ /\ req'.op = "supplier_payment"
           /\ (req'.body.supplier_id = NULL \/ req'.body.amount = NULL)
        \/ /\ req'.op = "purchase"
           /\ req'.body.supplier_id = NULL)
       => (res'.status # 200 /\ db' = db)]_vars

\* C19: every Transaction and SupplierTransaction row stored with an
\* amount has a strictly positive one (a row stored without an amount is
\* the matter of C18).
C19_AmountsPositive ==
    \A r \in db.transactions \cup db.supplier_transactions :
        r.amount # NULL => r.amount > 0

\* C20: a ledger entry inserts exactly one GeneralLedger row and changes
\* nothing else: every customer and supplier balance, every product's
\* stock and cost and every movement row is as before; an entry of a kind
\* outside {revenue, expense} is rejected, and a rejected entry leaves the
\* general ledger unchanged too.
C20_LedgerEntryFrame ==
    [][req'.op = "ledger" =>
        LET b == req'.body
            newRows == db'.general_ledger \ db.general_ledger
        IN /\ \A t \in TableNames \ {"general_ledger"} : db'[t] = db[t]
           /\ IF res'.status = 200
              THEN /\ db.general_ledger \subseteq db'.general_ledger
                   /\ Cardinality(newRows) = 1
                   /\ \A r \in newRows : r.type = b.type /\ r.amount = b.amount
              ELSE res'.status = 400 /\ db' = db
           /\ b.type \notin {"revenue", "expense", NullText} => res'.status = 400]_vars

\* C20 witness: an expense was entered in a store holding a customer with
\* a balance, a supplier and a product, after an earlier entry.
C20_Witness ==
    /\ req.op = "ledger"
    /\ res.status = 200
    /\ req.body.type = "expense"
    /\ Cardinality(db.general_ledger) = 2
    /\ \E c \in db.customers : c.balance = 1
    /\ db.suppliers # {}
    /\ \E p \in db.products : p.stock_quantity = MaxAmount

\* Every row of a movement table of store d is in d2 with the same fields.
MovementsKept(d, d2) == \A t \in MovementTables : d[t] \subseteq d2[t]

\* C21 as stated: once a Sale, Purchase, Transaction, SupplierTransaction,
\* StockAdjustment or GeneralLedger row exists it is present with the same
\* field values in every later state, whatever operation follows, a restore
\* included.
C21_MovementsAppendOnly == [][MovementsKept(db, db')]_vars

\* C21 amended: every operation other than a restore, failed or not, keeps
\* every movement row with the same field values; a restore replaces each
\* table the snapshot holds by the snapshot's rows.
C21_MovementsKeptButByRestore ==
    [][IF req'.op = "import"
       THEN res'.status = 200 =>
                \A t \in MovementTables \cap DOMAIN req'.backup :
                    db'[t] = req'.backup[t]
       ELSE MovementsKept(db, db')]_vars

\* C21 witness: a second payment was recorded for a customer; the row of
\* the first is still there.
C21_Witness ==
    /\ req.op = "payment"
    /\ res.status = 200
    /\ \E c \in db.customers : c.id = req.body.customer_id
    /\ Cardinality({r \in db.transactions : r.customer_id = req.body.customer_id}) = 2

\* C22: no read observes a partially applied unit. What an export returns
\* never holds a payment or sale Transaction row of a customer without the
\* balance recomputed from that customer's rows, nor a sale header without
\* its items and their stock decrements.
C22_ReadsSeeWholeUnits ==
    req.op = "export" =>
        LET seen == res.body
        IN /\ \A r \in seen.transactions : \A c \in seen.customers :
                c.id = r.customer_id =>
                    c.balance = LedgerBalance(seen.transactions, "customer_id",
                                              c.id, "sale")
           /\ \A h \in seen.sales :
                Cardinality({it \in seen.sale_items : it.sale_id = h.id}) = MaxItems
           /\ \A p \in seen.products :
                p.stock_quantity
                    = p.opening_stock
                      - Cardinality({it \in seen.sale_items : it.product_id = p.id})

\* C23: no two products ever share a SKU; a product creation or update
\* that would duplicate the SKU of another product is aborted, reports a
\* 4xx error and leaves the products table unchanged.
C23_SkuUnique ==
    [][/\ \A p \in db'.products : \A q \in db'.products :
              p.id # q.id => p.sku # q.sku
       /\ (\/ /\ req'.op = "product"
              /\ \E r \in db.products : r.sku = req'.body.sku
           \/ /\ req'.op = "product_update"
              /\ \E r \in db.products : r.id = req'.id
              /\ \E r \in db.products : r.id # req'.id /\ r.sku = req'.body.sku)
          => (res'.status \in 400..499 /\ db'.products = db.products)]_vars

\* C24: a successful import leaves every table the snapshot has an entry
\* for with exactly the snapshot's rows: a table whose entry is an empty
\* array ends empty, its rows deleted and none inserted.
C24_EmptyTableEmptied ==
    [][(req'.op = "import" /\ res'.status = 200)
       => \A t \in DOMAIN req'.backup :
            db'[t] = req'.backup[t]]_vars

\* C24 witness: an import whose snapshot had an empty customers array
\* succeeded on a store that held a customer and a supplier: the customer
\* is gone and the supplier is the snapshot's.
C24_Witness ==
    /\ req.op = "import"
    /\ res.status = 200
    /\ DOMAIN req.backup = TableNames
    /\ req.backup.customers = {}
    /\ db.customers = {}
    /\ db.sqlite_sequence.customers > 0
    /\ db.suppliers # {}
    /\ db.suppliers = req.backup.suppliers

\* C25: a sale without a customer (customer_id missing, null or 0) of
\* products of the store succeeds: it inserts the Sale header and one item
\* row per item and lowers the stock, inserts no Transaction row and
\* changes no customer's balance.
C25_WalkInSale ==
    [][(/\ req'.op = "sale"
        /\ ~Truthy(req'.body.customer_id)
        /\ \A i \in 1..Len(req'.body.items) :
              \E p \in db.products : p.id = req'.body.items[i].product_id)
       => (/\ res'.status = 200
           /\ SaleVisible(db, db', req'.body)
           /\ db'.transactions = db.transactions
           /\ db'.customers = db.customers)]_vars

\* the row of table t with identifier id is the only row that may differ
\* between d and d2, and only in its balance
OnlyBalanceOf(d, d2, t, id) ==
    /\ \A x \in DOMAIN d \ {t} : d2[x] = d[x]
    /\ {[r EXCEPT !.balance = 0] : r \in d2[t]} = {[r EXCEPT !.balance = 0] : r \in d[t]}
    /\ \A r \in d[t] : r.id # id => r \in d2[t]

\* C26: the recalculators never fail; for a customer or a supplier with no
\* movement rows they set the balance to 0, and for an identifier of no
\* customer or supplier they change no row.
C26_RecalculatorTotal ==
    [][/\ req'.op = "updateCustomerBalance" =>
            /\ res'.status = 200
            /\ OnlyBalanceOf(db, db', "customers", req'.id)
            /\ \A c \in db'.customers :
                  (/\ c.id = req'.id
                   /\ \A r \in db.transactions : r.customer_id # c.id)
                  => c.balance = 0
       /\ req'.op = "updateSupplierBalance" =>
            /\ res'.status = 200
            /\ OnlyBalanceOf(db, db', "suppliers", req'.id)
            /\ \A s \in db'.suppliers :
                  (/\ s.id = req'.id
                   /\ \A r \in db.supplier_transactions : r.supplier_id # s.id)
                  => s.balance = 0]_vars

\* C26 witness: the recalculator ran for a customer created with an opening
\* balance of 1 and no row in the log; its balance is 0 now.
C26_Witness ==
    /\ req.op = "updateCustomerBalance"
    /\ res.status = 200
    /\ \E c \in db.customers :
            /\ c.id = req.id
            /\ c.opening_balance = 1
            /\ c.balance = 0
            /\ \A r \in db.transactions : r.customer_id # c.id

\* C27: creating a customer sets its balance to opening_balance and writes
\* no Transaction row; a successful sale or payment for a customer sets
\* its balance to the aggregate of its Transaction rows alone, whatever
\* its opening balance; and no sale or payment changes an opening_balance.
C27_OpeningBalanceDropped ==
    [][/\ (req'.op = "customer" /\ res'.status = 200) =>
            /\ db'.transactions = db.transactions
            /\ db.customers \subseteq db'.customers
            /\ Cardinality(db'.customers \ db.customers) = 1
            /\ \A c \in db'.customers \ db.customers :
                  /\ c.opening_balance = req'.body.opening_balance
                  /\ c.balance = c.opening_balance
       /\ req'.op \in {"sale", "payment"} =>
            /\ {[id |-> c.id, opening_balance |-> c.opening_balance] : c \in db'.customers}
                  = {[id |-> c.id, opening_balance |-> c.opening_balance] : c \in db.customers}
            /\ (res'.status = 200 /\ Truthy(req'.body.customer_id)) =>
                  \A c \in db'.customers :
                      c.id = req'.body.customer_id =>
                          c.balance = LedgerBalance(db'.transactions, "customer_id",
                                                    c.id, "sale")]_vars

\* C27 witness: a customer created with an opening balance of 1 bought
\* unpaid for T as its first movement; its balance is T, not 1 + T, and
\* its opening_balance is still 1.
C27_Witness ==
    /\ req.op = "sale"
    /\ res.status = 200
    /\ req.body.payment_status = "unpaid"
    /\ \E c \in db.customers :
            /\ c.id = req.body.customer_id
            /\ c.opening_balance = 1
            /\ c.balance = req.body.total_amount
            /\ Cardinality({r \in db.transactions : r.customer_id = c.id}) = 1

RECURSIVE SumQuantities(_)
\* the sum of the quantities of a set of item or adjustment rows
SumQuantities(rows) ==
    IF rows = {} THEN 0
    ELSE LET r == CHOOSE x \in rows : TRUE
         IN r.quantity + SumQuantities(rows \ {r})

\* C28: stock conservation: every product's stock_quantity is its
\* opening_stock plus the quantities purchased of it, minus the quantities
\* sold and the quantities adjusted, after creations (with any
\* opening_stock), direct edits, sales, purchases and stock adjustments.
C28_StockConserved ==
    \A p \in db.products :
        p.stock_quantity
            = p.opening_stock
              + SumQuantities({r \in db.purchase_items : r.product_id = p.id})
              - SumQuantities({r \in db.sale_items : r.product_id = p.id})
              - SumQuantities({r \in db.stock_adjustments : r.product_id = p.id})

\* C29: party isolation. A sale or a customer payment naming customer C
\* changes no other customer and no supplier, and inserts Transaction rows
\* for C only; a purchase or a supplier payment naming supplier S changes
\* no other supplier and no customer, and inserts SupplierTransaction rows
\* for S only.
C29_PartyIsolation ==
    [][/\ req'.op \in {"sale", "payment"} =>
            /\ db'.suppliers = db.suppliers
            /\ db'.supplier_transactions = db.supplier_transactions
            /\ \A c \in db.customers : c.id # req'.body.customer_id => c \in db'.customers
            /\ \A r \in db'.transactions \ db.transactions :
                  r.customer_id = req'.body.customer_id
       /\ req'.op \in {"purchase", "supplier_payment"} =>
            /\ db'.customers = db.customers
            /\ db'.transactions = db.transactions
            /\ \A s \in db.suppliers : s.id # req'.body.supplier_id => s \in db'.suppliers
            /\ \A r \in db'.supplier_transactions \ db.supplier_transactions :
                  r.supplier_id = req'.body.supplier_id]_vars

\* C29 witness: a payment of customer 1 succeeded and moved its balance,
\* in a store where customer 2 still has the balance it was created with
\* and a supplier is owed for a purchase.
C29_Witness ==
    /\ req.op = "payment"
    /\ res.status = 200
    /\ req.body.customer_id = 1
    /\ \E c \in db.customers : c.id = 1 /\ c.balance = 0 - req.body.amount
    /\ \E c \in db.customers : c.id = 2 /\ c.balance = 1
    /\ \E s \in db.suppliers : s.balance > 0

\* the place of table t in the restore's table order
TablePosition(t) == CHOOSE i \in 1..Len(TABLES) : TABLES[i] = t

\* C30: with foreign keys enforced the restore's table order is safe both
\* ways: every referenced table comes before each table referencing it,
\* and a restore of the export just taken, on a store holding rows that
\* reference other tables, does not fail on the deletion of a referenced
\* table's rows.
C30_RestoreOrderSafe ==
    [][/\ \A fk \in ForeignKeyClauses :
              TablePosition(fk.parent) < TablePosition(fk.child)
       /\ (/\ req'.op = "import"
           /\ req'.fault = 0
           /\ req'.backup = Export(db)
           /\ db.sales # {})
          => res'.status = 200]_vars

====
